---- MODULE Spec2Model ----
(***************************************************************************)
(* Model of rust/tlsn-verifier/src/lib.rs: verify_presentation, the HTTP   *)
(* decoder parse_http_response and calculate_hash.                         *)
(*                                                                         *)
(* Bytes are integers 0..255, a Rust String is its (validated) UTF-8 byte  *)
(* sequence, a serde_json::Value is a tagged record:                       *)
(*   [t |-> "null"], [t |-> "num", n |-> 11], [t |-> "str", s |-> bytes],   *)
(*   [t |-> "arr", items |-> <<..>>], [t |-> "obj", k |-> key, val |-> v].  *)
(***************************************************************************)
EXTENDS Integers, Sequences, FiniteSets, TLC

VARIABLES input, pc, presentation, verified, data, proof_hash, ret, calls

vars == <<input, pc, presentation, verified, data, proof_hash, ret, calls>>

\* Option<T>: <<>> is None, <<v>> is Some(v)
NoneOpt == <<>>
Some(v) == <<v>>
IsSome(o) == Len(o) = 1
Unwrap(o) == o[1]

(***************************************************************************)
(* Bounds of the model.                                                    *)
(***************************************************************************)
MaxRecv == 2
MaxBody == 3

(***************************************************************************)
(* Sequence helpers.                                                       *)
(***************************************************************************)
SeqsUpTo(S, n) == UNION {[1..k -> S] : k \in 0..n}

Slice(s, from, to) == [i \in 1..(to - from + 1) |-> s[from + i - 1]]

\* s[from..] with a 0-based byte offset, as Rust's &text[from..]
SliceFrom(s, from) == Slice(s, from + 1, Len(s))

(***************************************************************************)
(* hex::encode: two lowercase hex digits per byte, as an ASCII string.     *)
(***************************************************************************)
\* "0123456789abcdef" as ASCII bytes
HexDigits == <<48, 49, 50, 51, 52, 53, 54, 55, 56, 57, 97, 98, 99, 100, 101, 102>>

HexEncode(bytes) ==
    [i \in 1..(2 * Len(bytes)) |->
        LET b == bytes[(i + 1) \div 2]
        IN  IF i % 2 = 1 THEN HexDigits[(b \div 16) + 1]
                         ELSE HexDigits[(b % 16) + 1]]

(***************************************************************************)
(* String::from_utf8: the validity check of the standard library.  The     *)
(* String it returns holds the same bytes.                                 *)
(***************************************************************************)
IsCont(b) == b >= 128 /\ b <= 191

RECURSIVE Utf8From(_, _)
Utf8From(s, i) ==
    IF i > Len(s) THEN TRUE
    ELSE LET b == s[i]
             has(k) == i + k <= Len(s)
         IN  IF b < 128 THEN Utf8From(s, i + 1)
             ELSE IF b >= 194 /\ b <= 223
                  THEN has(1) /\ IsCont(s[i + 1]) /\ Utf8From(s, i + 2)
             ELSE IF b >= 224 /\ b <= 239
                  THEN /\ has(2)
                       /\ IF b = 224 THEN s[i + 1] >= 160 /\ s[i + 1] <= 191
                          ELSE IF b = 237 THEN s[i + 1] >= 128 /\ s[i + 1] <= 159
                          ELSE IsCont(s[i + 1])
                       /\ IsCont(s[i + 2])
                       /\ Utf8From(s, i + 3)
             ELSE IF b >= 240 /\ b <= 244
                  THEN /\ has(3)
                       /\ IF b = 240 THEN s[i + 1] >= 144 /\ s[i + 1] <= 191
                          ELSE IF b = 244 THEN s[i + 1] >= 128 /\ s[i + 1] <= 143
                          ELSE IsCont(s[i + 1])
                       /\ IsCont(s[i + 2])
                       /\ IsCont(s[i + 3])
                       /\ Utf8From(s, i + 4)
             ELSE FALSE

from_utf8(bytes) ==
    IF Utf8From(bytes, 1) THEN [ok |-> TRUE, s |-> bytes] ELSE [ok |-> FALSE]

(***************************************************************************)
(* str::find: the 0-based byte offset of the first match, or -1 for None.  *)
(***************************************************************************)
MatchAt(s, pat, off) ==
    /\ off + Len(pat) <= Len(s)
    /\ \A j \in 1..Len(pat) : s[off + j] = pat[j]

RECURSIVE FindFrom(_, _, _)
FindFrom(s, pat, off) ==
    IF off + Len(pat) > Len(s) THEN -1
    ELSE IF MatchAt(s, pat, off) THEN off
    ELSE FindFrom(s, pat, off + 1)

\* mutant of find: str::rfind, the offset of the last match
RECURSIVE RFindFrom(_, _, _)
RFindFrom(s, pat, off) ==
    IF off < 0 THEN -1
    ELSE IF MatchAt(s, pat, off) THEN off
    ELSE RFindFrom(s, pat, off - 1)

rfind(s, pat) == RFindFrom(s, pat, Len(s) - Len(pat))

find(s, pat) == FindFrom(s, pat, 0)

\* "\r\n\r\n"
Separator == <<13, 10, 13, 10>>

(***************************************************************************)
(* serde_json::from_str::<Value>: whitespace, non-negative integers and    *)
(* arrays, the JSON that can be written with the bytes of BodyBytes;       *)
(* any other byte is a syntax error where a value is expected.             *)
(***************************************************************************)
IsWs(b) == b \in {32, 9, 10, 13}
IsDigit(b) == b >= 48 /\ b <= 57

RECURSIVE SkipWs(_, _)
SkipWs(s, i) == IF i <= Len(s) /\ IsWs(s[i]) THEN SkipWs(s, i + 1) ELSE i

RECURSIVE ParseDigits(_, _, _)
ParseDigits(s, i, acc) ==
    IF i <= Len(s) /\ IsDigit(s[i])
    THEN ParseDigits(s, i + 1, 10 * acc + (s[i] - 48))
    ELSE [ok |-> TRUE, val |-> [t |-> "num", n |-> acc], pos |-> i]

JsonFail == [ok |-> FALSE]

RECURSIVE ParseValue(_, _)
RECURSIVE ParseElems(_, _, _)
ParseValue(s, i0) ==
    LET i == SkipWs(s, i0)
    IN  IF i > Len(s) THEN JsonFail
        ELSE IF s[i] = 48
             THEN \* a leading zero ends the number
                  IF i + 1 <= Len(s) /\ IsDigit(s[i + 1]) THEN JsonFail
                  ELSE [ok |-> TRUE, val |-> [t |-> "num", n |-> 0], pos |-> i + 1]
        ELSE IF IsDigit(s[i]) THEN ParseDigits(s, i, 0)
        ELSE IF s[i] = 91
             THEN LET j == SkipWs(s, i + 1)
                  IN  IF j > Len(s) THEN JsonFail
                      ELSE IF s[j] = 93
                           THEN [ok |-> TRUE,
                                 val |-> [t |-> "arr", items |-> <<>>],
                                 pos |-> j + 1]
                      ELSE ParseElems(s, j, <<>>)
        ELSE JsonFail

\* the elements of an array after '[', up to and including ']'
ParseElems(s, i, acc) ==
    LET r == ParseValue(s, i)
    IN  IF ~r.ok THEN JsonFail
        ELSE LET j == SkipWs(s, r.pos)
                 items == Append(acc, r.val)
             IN  IF j > Len(s) THEN JsonFail
                 ELSE IF s[j] = 93
                      THEN [ok |-> TRUE,
                            val |-> [t |-> "arr", items |-> items],
                            pos |-> j + 1]
                 ELSE IF s[j] = 44 THEN ParseElems(s, j + 1, items)
                 ELSE JsonFail

\* a value, then nothing but whitespace
json_from_str(s) ==
    LET r == ParseValue(s, 1)
    IN  IF r.ok /\ SkipWs(s, r.pos) > Len(s)
        THEN [ok |-> TRUE, val |-> r.val]
        ELSE JsonFail

JsonObj(key, v) == [t |-> "obj", k |-> key, val |-> v]
JsonStr(bytes) == [t |-> "str", s |-> bytes]
JsonNull == [t |-> "null"]

(***************************************************************************)
(* parse_http_response                                                     *)
(***************************************************************************)
parse_http_response(transcript) ==
    LET text == from_utf8(transcript)
    IN  IF ~text.ok THEN JsonObj("raw", JsonStr(HexEncode(transcript)))
        ELSE LET body_start == find(text.s, Separator)
             IN  IF body_start >= 0
                 THEN LET body == SliceFrom(text.s, body_start + 4)
                          json == json_from_str(body)
                      IN  IF json.ok THEN json.val
                          ELSE JsonObj("text", JsonStr(body))
                 ELSE JsonObj("text", JsonStr(text.s))

(***************************************************************************)
(* calculate_hash: hex::encode of the digest of data.as_bytes().  Sha256   *)
(* stands for the external SHA-256 primitive: a deterministic digest of    *)
(* fixed length (two bytes here) over the bytes it is given.               *)
(***************************************************************************)
RECURSIVE DigestFold(_, _, _)
DigestFold(bytes, i, acc) ==
    IF i > Len(bytes) THEN acc
    ELSE DigestFold(bytes, i + 1, (acc * 31 + bytes[i] + 1) % 65536)

Sha256(bytes) ==
    LET h == DigestFold(bytes, 1, 7) IN <<h \div 256, h % 256>>

\* mutant of calculate_hash: the digest bytes, not hex-encoded
calculate_hash_raw(bytes) == Sha256(bytes)

calculate_hash(bytes) == HexEncode(Sha256(bytes))

(***************************************************************************)
(* The input text.  A JSON text is held in abstract syntax: each of the    *)
(* three top-level members is an Option, NoneOpt when the key is absent;   *)
(* anything that is not JSON is held as its bytes.  as_bytes gives the     *)
(* bytes of the text (distinct texts have distinct bytes).                 *)
(***************************************************************************)
RECURSIVE RangesBytes(_, _)
RangesBytes(ranges, i) ==
    IF i > Len(ranges) THEN <<>>
    ELSE <<ranges[i].start, ranges[i].end, ranges[i].path>>
         \o RangesBytes(ranges, i + 1)

HeaderBytes(h) ==
    <<Len(h.server_name)>> \o h.server_name \o <<h.handshake_hash, h.time>>

ProofBytes(p) ==
    <<Len(p.received)>> \o p.received \o <<Len(p.ranges)>>
    \o RangesBytes(p.ranges, 1)

as_bytes(doc) ==
    IF doc.kind = "text" THEN doc.bytes
    ELSE <<123>>
         \o (IF IsSome(doc.session_header)
             THEN <<1>> \o HeaderBytes(Unwrap(doc.session_header)) ELSE <<>>)
         \o (IF IsSome(doc.transcript_proof)
             THEN <<2>> \o ProofBytes(Unwrap(doc.transcript_proof)) ELSE <<>>)
         \o (IF IsSome(doc.signature)
             THEN <<3, Unwrap(doc.signature)>> ELSE <<>>)
         \o <<125>>

(***************************************************************************)
(* Deserialize for Presentation (serde_json::from_str): a text that is not *)
(* JSON, or a JSON object lacking one of the three members, is an error.   *)
(***************************************************************************)
DeserializePresentation(doc) ==
    IF doc.kind = "text" THEN [ok |-> FALSE, e |-> "expected value"]
    ELSE IF ~IsSome(doc.session_header)
         THEN [ok |-> FALSE, e |-> "missing field session_header"]
    ELSE IF ~IsSome(doc.transcript_proof)
         THEN [ok |-> FALSE, e |-> "missing field transcript_proof"]
    ELSE IF ~IsSome(doc.signature)
         THEN [ok |-> FALSE, e |-> "missing field signature"]
    ELSE [ok |-> TRUE,
          val |-> [session_header |-> Unwrap(doc.session_header),
                   transcript_proof |-> Unwrap(doc.transcript_proof),
                   signature |-> Unwrap(doc.signature)]]

(***************************************************************************)
(* The CryptoProvider and Presentation::verify.  The hash and signature    *)
(* scheme stand for the provider's primitives: digests are 0..HashMod-1,   *)
(* the signature of a header is a keyed digest of its canonical bytes.     *)
(***************************************************************************)
HashMod == 2
SigMod == 3
NotaryKey == <<2, 171>>
Filler == 0

RECURSIVE SumBytes(_, _)
SumBytes(bytes, i) == IF i > Len(bytes) THEN 0 ELSE bytes[i] + SumBytes(bytes, i + 1)

LeafHash(bytes) == (SumBytes(bytes, 1) + Len(bytes)) % HashMod
NodeHash(l, r) == (l + r + 1) % HashMod

\* the signature the notary's key gives the header
SignHeader(header) ==
    (SumBytes(HeaderBytes(header), 1) + SumBytes(NotaryKey, 1)) % SigMod

ProviderVerify(header, signature) == signature = SignHeader(header)

\* the bytes of the range [start, end), offsets 0-based
RangeBytes(received, r) == Slice(received, r.start + 1, r.end)

RangeInBounds(received, r) ==
    r.start >= 0 /\ r.start < r.end /\ r.end <= Len(received)

\* the authentication path of the range reduces to the committed root
RangeAuthentic(received, r, root) ==
    NodeHash(LeafHash(RangeBytes(received, r)), r.path) = root

RangesOrdered(ranges) ==
    \A i \in 1..(Len(ranges) - 1) : ranges[i].end <= ranges[i + 1].start

ProofOk(proof, root) ==
    /\ RangesOrdered(proof.ranges)
    /\ \A i \in 1..Len(proof.ranges) :
          /\ RangeInBounds(proof.received, proof.ranges[i])
          /\ RangeAuthentic(proof.received, proof.ranges[i], root)

Disclosed(ranges, len) ==
    {i \in 0..(len - 1) : \E j \in 1..Len(ranges) :
        ranges[j].start <= i /\ i < ranges[j].end}

\* full transcript length; a byte outside the disclosed ranges is `fill`
Reconstruct(received, ranges, fill) ==
    [i \in 1..Len(received) |->
        IF (i - 1) \in Disclosed(ranges, Len(received)) THEN received[i]
        ELSE fill]

RangePairs(ranges) == [i \in 1..Len(ranges) |-> <<ranges[i].start, ranges[i].end>>]

PresentationVerify(p) ==
    IF ~ProviderVerify(p.session_header, p.signature)
    THEN [ok |-> FALSE, e |-> "SignatureError"]
    ELSE IF ~ProofOk(p.transcript_proof, p.session_header.handshake_hash)
    THEN [ok |-> FALSE, e |-> "ProofError"]
    ELSE [ok |-> TRUE,
          val |-> [server_name |-> p.session_header.server_name,
                   time |-> p.session_header.time,
                   recv_transcript |->
                       Reconstruct(p.transcript_proof.received,
                                   p.transcript_proof.ranges, Filler),
                   notary_pubkey |-> NotaryKey,
                   redacted_ranges |-> RangePairs(p.transcript_proof.ranges)]]

(***************************************************************************)
(* VerificationResult and its serde_json::to_string: a JSON object with    *)
(* the eight members of the struct; Option::None is null, a (usize, usize) *)
(* pair is a two-element array.                                            *)
(***************************************************************************)
JsonBool(b) == [t |-> "bool", b |-> b]
JsonNum(n) == [t |-> "num", n |-> n]
JsonArr(items) == [t |-> "arr", items |-> items]
JsonMsg(prefix, e) == [t |-> "msg", prefix |-> prefix, e |-> e]

RangesToJson(ranges) ==
    JsonArr([i \in 1..Len(ranges) |->
                JsonArr(<<JsonNum(ranges[i][1]), JsonNum(ranges[i][2])>>)])

to_string(result) ==
    [valid |-> JsonBool(result.valid),
     server_name |-> JsonStr(result.server_name),
     time |-> JsonNum(result.time),
     data |-> result.data,
     proof_hash |-> JsonStr(result.proof_hash),
     notary_pubkey |-> JsonStr(result.notary_pubkey),
     redacted_ranges |->
         IF IsSome(result.redacted_ranges)
         THEN RangesToJson(Unwrap(result.redacted_ranges)) ELSE JsonNull,
     error |->
         IF IsSome(result.error)
         THEN JsonMsg(Unwrap(result.error)[1], Unwrap(result.error)[2])
         ELSE JsonNull]

\* mutant of SuccessResult: server_name left empty as in the error result
SuccessResultNoName(output, d, hash) ==
    [valid |-> TRUE,
     server_name |-> <<>>,
     time |-> output.time,
     data |-> d,
     proof_hash |-> hash,
     notary_pubkey |-> HexEncode(output.notary_pubkey),
     redacted_ranges |-> Some(output.redacted_ranges),
     error |-> NoneOpt]

\* mutant of SuccessResult: data left null as in the error result
SuccessResultNullData(output, d, hash) ==
    [valid |-> TRUE,
     server_name |-> output.server_name,
     time |-> output.time,
     data |-> JsonNull,
     proof_hash |-> hash,
     notary_pubkey |-> HexEncode(output.notary_pubkey),
     redacted_ranges |-> Some(output.redacted_ranges),
     error |-> NoneOpt]

SuccessResult(output, d, hash) ==
    [valid |-> TRUE,
     server_name |-> output.server_name,
     time |-> output.time,
     data |-> d,
     proof_hash |-> hash,
     notary_pubkey |-> HexEncode(output.notary_pubkey),
     redacted_ranges |-> Some(output.redacted_ranges),
     error |-> NoneOpt]

\* mutant of ErrorResult: valid set as in the success result
ErrorResultValid(e) ==
    [valid |-> TRUE,
     server_name |-> <<>>,
     time |-> 0,
     data |-> JsonNull,
     proof_hash |-> <<>>,
     notary_pubkey |-> <<>>,
     redacted_ranges |-> NoneOpt,
     error |-> Some(<<"Verification failed: ", e>>)]

\* mutant of ErrorResult: the error is dropped
ErrorResultNoError(e) ==
    [valid |-> FALSE,
     server_name |-> <<>>,
     time |-> 0,
     data |-> JsonNull,
     proof_hash |-> <<>>,
     notary_pubkey |-> <<>>,
     redacted_ranges |-> NoneOpt,
     error |-> NoneOpt]

\* mutant of ErrorResult: an empty ranges list instead of None
ErrorResultEmptyRanges(e) ==
    [valid |-> FALSE,
     server_name |-> <<>>,
     time |-> 0,
     data |-> JsonNull,
     proof_hash |-> <<>>,
     notary_pubkey |-> <<>>,
     redacted_ranges |-> Some(<<>>),
     error |-> Some(<<"Verification failed: ", e>>)]

ErrorResult(e) ==
    [valid |-> FALSE,
     server_name |-> <<>>,
     time |-> 0,
     data |-> JsonNull,
     proof_hash |-> <<>>,
     notary_pubkey |-> <<>>,
     redacted_ranges |-> NoneOpt,
     error |-> Some(<<"Verification failed: ", e>>)]

RetOk(json) == [tag |-> "Ok", json |-> json]
RetErr(prefix, e) == [tag |-> "Err", prefix |-> prefix, e |-> e]

(***************************************************************************)
(* The inputs.                                                             *)
(***************************************************************************)
ServerNames == {<<97>>, <<98>>}
Times == {1700}
RecvBytes == {72, 73}

Headers ==
    [server_name : ServerNames, handshake_hash : 0..(HashMod - 1), time : Times]

\* the ranges a proof over len bytes may claim: the in-bounds ones, a
\* zero-length one and one past the end of the transcript
CandRanges(len) ==
    {r \in [start : 0..len, end : 0..(len + 1), path : 0..(HashMod - 1)] :
        \/ r.start < r.end /\ r.end <= len
        \/ r.start = 0 /\ r.end = 0
        \/ r.start = 0 /\ r.end = len + 1}

RangeLists(len) ==
    {rs \in SeqsUpTo(CandRanges(len), len) :
        \A i \in 1..(Len(rs) - 1) : rs[i].start < rs[i + 1].start}

Proofs ==
    UNION {[received : {rc}, ranges : RangeLists(Len(rc))] :
              rc \in SeqsUpTo(RecvBytes, MaxRecv)}

JsonDoc(h, p, sg) ==
    [kind |-> "json", session_header |-> h, transcript_proof |-> p, signature |-> sg]

FullDocs ==
    {JsonDoc(Some(h), Some(p), Some(sg)) :
        h \in Headers, p \in Proofs, sg \in 0..(SigMod - 1)}

\* texts that lack members: every way of dropping members from a text
\* whose proof is fully redacted
IncompleteDocs ==
    {JsonDoc(h, p, sg) :
        h \in {NoneOpt} \cup {Some(x) : x \in Headers},
        p \in {NoneOpt} \cup {Some([received |-> rc, ranges |-> <<>>]) :
                                 rc \in SeqsUpTo(RecvBytes, 1)},
        sg \in {NoneOpt} \cup {Some(x) : x \in 0..(SigMod - 1)}}
    \ FullDocs

\* "", "{" and "no"
TextDocs == {[kind |-> "text", bytes |-> b] : b \in {<<>>, <<123>>, <<110, 111>>}}

Inputs == FullDocs \cup IncompleteDocs \cup TextDocs

(***************************************************************************)
(* verify_presentation, one action per stage.  calls records the stages    *)
(* invoked so far.                                                         *)
(***************************************************************************)
Init ==
    /\ input \in Inputs
    /\ pc = "start"
    /\ presentation = NoneOpt
    /\ verified = NoneOpt
    /\ data = NoneOpt
    /\ proof_hash = NoneOpt
    /\ ret = NoneOpt
    /\ calls = <<>>

\* mutant of HandleParse: unwrap_or_default() instead of `?`
DefaultPresentation ==
    [session_header |-> [server_name |-> <<>>, handshake_hash |-> 0, time |-> 0],
     transcript_proof |-> [received |-> <<>>, ranges |-> <<>>],
     signature |-> 0]

HandleParseDefault(r) ==
    [pc |-> "parsed",
     presentation |-> IF r.ok THEN Some(r.val) ELSE Some(DefaultPresentation),
     ret |-> NoneOpt]

\* serde_json::from_str(presentation_json).map_err(..)?
HandleParse(r) ==
    IF r.ok
    THEN [pc |-> "parsed", presentation |-> Some(r.val), ret |-> NoneOpt]
    ELSE [pc |-> "done", presentation |-> NoneOpt,
          ret |-> Some(RetErr("Parse error: ", r.e))]

Parse ==
    /\ pc = "start"
    /\ LET next == HandleParse(DeserializePresentation(input))
       IN  /\ pc' = next.pc
           /\ presentation' = next.presentation
           /\ ret' = next.ret
    /\ calls' = Append(calls, "parse")
    /\ UNCHANGED <<input, verified, data, proof_hash>>

\* match presentation.verify(&provider): verified holds the Result
VerifyBranch(r) == IF r.ok THEN "verified" ELSE "failed"

Verify ==
    /\ pc = "parsed"
    /\ LET r == PresentationVerify(Unwrap(presentation))
       IN  /\ verified' = Some(r)
           /\ pc' = VerifyBranch(r)
    /\ calls' = Append(calls, "verify")
    /\ UNCHANGED <<input, presentation, data, proof_hash, ret>>

\* let data = parse_http_response(&output.recv_transcript)
DecodeHttp ==
    /\ pc = "verified"
    /\ data' = Some(parse_http_response(Unwrap(verified).val.recv_transcript))
    /\ pc' = "decoded"
    /\ calls' = Append(calls, "decode")
    /\ UNCHANGED <<input, presentation, verified, proof_hash, ret>>

\* let proof_hash = calculate_hash(presentation_json)
HashInput(doc) == calculate_hash(as_bytes(doc))

CalcHash ==
    /\ pc = "decoded"
    /\ proof_hash' = Some(HashInput(input))
    /\ pc' = "hashed"
    /\ calls' = Append(calls, "hash")
    /\ UNCHANGED <<input, presentation, verified, data, ret>>

\* the Ok arm: build the success result and serialize it
BuildSuccess ==
    /\ pc = "hashed"
    /\ ret' = Some(RetOk(to_string(
                 SuccessResult(Unwrap(verified).val, Unwrap(data),
                               Unwrap(proof_hash)))))
    /\ pc' = "done"
    /\ calls' = Append(calls, "assemble")
    /\ UNCHANGED <<input, presentation, verified, data, proof_hash>>

\* the Err arm: build the error result and serialize it
BuildError ==
    /\ pc = "failed"
    /\ ret' = Some(RetOk(to_string(ErrorResult(Unwrap(verified).e))))
    /\ pc' = "done"
    /\ calls' = Append(calls, "assemble")
    /\ UNCHANGED <<input, presentation, verified, data, proof_hash>>

Next ==
    \/ Parse
    \/ Verify
    \/ DecodeHttp
    \/ CalcHash
    \/ BuildSuccess
    \/ BuildError

Spec == Init /\ [][Next]_vars

(***************************************************************************)
(* The decoder on transcripts of every shape: the same pipeline, started   *)
(* on presentations that verify and disclose the whole of a transcript     *)
(* made of a head, separators and a body.                                  *)
(***************************************************************************)
\* '1', '[', ']', ' ' and 'a'
BodyBytes == {49, 91, 93, 32, 97}

\* "", "H", an invalid byte, "é", and a truncated "é"
Heads == {<<>>, <<72>>, <<255>>, <<195, 169>>, <<195>>}

\* none, CRLF, the separator, two separators, and two overlapping ones
Seps == {<<>>, <<13, 10>>, Separator, Separator \o Separator,
         Separator \o <<13, 10>>}

DecodeTranscripts ==
    {h \o sp \o b : h \in Heads, sp \in Seps, b \in SeqsUpTo(BodyBytes, MaxBody)}

DecodeHeader == [server_name |-> <<97>>, handshake_hash |-> 0, time |-> 1700]

\* a presentation the notary signed that discloses all of tr
DisclosingDoc(tr) ==
    LET whole == [start |-> 0, end |-> Len(tr),
                  path |-> CHOOSE sib \in 0..(HashMod - 1) :
                              NodeHash(LeafHash(tr), sib) = 0]
    IN  JsonDoc(Some(DecodeHeader),
                Some([received |-> tr,
                      ranges |-> IF Len(tr) = 0 THEN <<>> ELSE <<whole>>]),
                Some(SignHeader(DecodeHeader)))

InitDecode ==
    /\ input \in {DisclosingDoc(tr) : tr \in DecodeTranscripts}
    /\ pc = "start"
    /\ presentation = NoneOpt
    /\ verified = NoneOpt
    /\ data = NoneOpt
    /\ proof_hash = NoneOpt
    /\ ret = NoneOpt
    /\ calls = <<>>

NextDecode ==
    \/ Parse
    \/ Verify
    \/ DecodeHttp
    \/ CalcHash
    \/ BuildSuccess

SpecDecode == InitDecode /\ [][NextDecode]_vars

(***************************************************************************)
(* Vocabulary of the properties.                                           *)
(***************************************************************************)
Done == pc = "done"

\* the call returned a serialized VerificationResult
Returned == Done /\ Unwrap(ret).tag = "Ok"
Out == Unwrap(ret).json

\* the call returned Err(JsValue)
Raised == Done /\ Unwrap(ret).tag = "Err"

\* the text is not JSON or lacks one of the three members
Unparsable(doc) ==
    \/ doc.kind = "text"
    \/ /\ doc.kind = "json"
       /\ \/ ~IsSome(doc.session_header)
          \/ ~IsSome(doc.transcript_proof)
          \/ ~IsSome(doc.signature)

InHeader == Unwrap(input.session_header)
InProof == Unwrap(input.transcript_proof)
InSignature == Unwrap(input.signature)

SignatureGood == InSignature = SignHeader(InHeader)

\* range i of the proof lies in the transcript and reduces to the root
RangeGood(i) ==
    LET r == InProof.ranges[i]
    IN  /\ 0 <= r.start /\ r.start < r.end /\ r.end <= Len(InProof.received)
        /\ NodeHash(LeafHash(Slice(InProof.received, r.start + 1, r.end)), r.path)
              = InHeader.handshake_hash

AllRangesGood == \A i \in 1..Len(InProof.ranges) : RangeGood(i)

RangesDisjoint ==
    \A i \in 1..(Len(InProof.ranges) - 1) :
        InProof.ranges[i].end <= InProof.ranges[i + 1].start

HasError == Out.error.t = "msg"
HasRanges == Out.redacted_ranges.t = "arr"

(***************************************************************************)
(* Properties of verify_presentation.                                      *)
(***************************************************************************)

\* C1: a result with valid = true is returned only if the notary signature
\* verified and every disclosed range authenticated against the committed
\* root; a presentation with a tampered signature, or with at least one
\* range that does not reduce to the root, gets valid = false with an error
\* message, whatever its other parts are.
C1_ValidOnlyIfAuthentic ==
    (Done /\ ~Unparsable(input)) =>
        /\ (Returned /\ Out.valid.b) => (SignatureGood /\ AllRangesGood)
        /\ (~SignatureGood \/ ~AllRangesGood) =>
              (Returned /\ ~Out.valid.b /\ HasError)

\* a correctly signed presentation with one authentic and one forged range
\* was rejected
C1_Witness ==
    /\ Done /\ ~Unparsable(input)
    /\ SignatureGood
    /\ \E i, j \in 1..Len(InProof.ranges) : RangeGood(i) /\ ~RangeGood(j)
    /\ Returned /\ ~Out.valid.b /\ HasError

StageOrder == <<"parse", "verify", "decode", "hash", "assemble">>

IsPrefix(a, b) == Len(a) <= Len(b) /\ \A i \in 1..Len(a) : a[i] = b[i]

Invoked(stage) == \E i \in 1..Len(calls) : calls[i] = stage

VerificationFailed ==
    ~Unparsable(input) /\ ~(SignatureGood /\ AllRangesGood /\ RangesDisjoint)

C3_StagesInOrderFailClosed ==
    /\ \/ IsPrefix(calls, StageOrder)
       \/ calls = <<"parse", "verify", "assemble">>
    /\ Unparsable(input) =>
          ~Invoked("verify") /\ ~Invoked("decode") /\ ~Invoked("hash")
    /\ VerificationFailed => ~Invoked("decode")

\* a call whose verification failed has ended without the decoder
C3_Witness ==
    /\ Done /\ VerificationFailed
    /\ calls = <<"parse", "verify", "assemble">>

\* C4 as stated: every input, also one that fails at the parsing, signature
\* or proof stage, gets a VerificationOutput, with valid = false and an
\* error string when a stage failed; never a raised error.
C4_AlwaysAnOutput ==
    Done =>
        /\ Returned
        /\ (Unparsable(input) \/ VerificationFailed) =>
              (~Out.valid.b /\ HasError)

\* C4, amended: a failure of the signature or proof stage is returned as an
\* output with valid = false and the error string "Verification failed: .."
\* and a parse failure is raised as the error "Parse error: .." and gives
\* no output.
C4_OutputOrParseError ==
    Done =>
        /\ Unparsable(input) =>
              (Raised /\ Unwrap(ret).prefix = "Parse error: ")
        /\ VerificationFailed =>
              /\ Returned /\ ~Out.valid.b /\ HasError
              /\ Out.error.prefix = "Verification failed: "
        /\ ~Unparsable(input) => Returned

\* a text lacking transcript_proof ended in a raised parse error
C4_Witness ==
    /\ Done
    /\ input.kind = "json"
    /\ IsSome(input.session_header) /\ ~IsSome(input.transcript_proof)
    /\ Raised /\ Unwrap(ret).prefix = "Parse error: "

\* C5 as stated: every output, valid or not, carries the hex digest of the
\* input bytes as proof_hash.
C5_HashOnEveryOutput ==
    Returned => Out.proof_hash = JsonStr(HexEncode(Sha256(as_bytes(input))))

\* C5, amended: an output with valid = true carries the hex digest of the
\* input bytes as proof_hash; an output with valid = false carries the
\* empty string.
C5_HashOnSuccessOnly ==
    Returned =>
        /\ Out.valid.b =>
              Out.proof_hash = JsonStr(HexEncode(Sha256(as_bytes(input))))
        /\ ~Out.valid.b => Out.proof_hash = JsonStr(<<>>)

C5_Witness ==
    /\ Returned /\ Out.valid.b
    /\ Len(InProof.received) = 2
    /\ Out.proof_hash = JsonStr(HexEncode(Sha256(as_bytes(input))))
    /\ Len(Out.proof_hash.s) = 4

\* C6: in every output the error is present iff valid is false, and the
\* ranges (redacted_ranges) are present iff valid is true.
C6_ErrorXorRanges ==
    Returned =>
        /\ HasError <=> ~Out.valid.b
        /\ HasRanges <=> Out.valid.b
        /\ Out.error.t \in {"msg", "null"}
        /\ Out.redacted_ranges.t \in {"arr", "null"}

\* a rejected presentation's output carries the error and no ranges
C6_Witness ==
    /\ Returned /\ ~Out.valid.b
    /\ HasError /\ Out.redacted_ranges = JsonNull
    /\ Len(InProof.ranges) > 0

\* C7 as stated: a correctly signed presentation with an empty range list
\* gets valid = true, data = null, an empty ranges list and no error.
FullyRedacted ==
    ~Unparsable(input) /\ SignatureGood /\ Len(InProof.ranges) = 0

C8_MissingFieldIsParseError ==
    Unparsable(input) =>
        /\ presentation = NoneOpt
        /\ verified = NoneOpt
        /\ Done => (Raised /\ Unwrap(ret).prefix = "Parse error: ")

\* a signed text lacking only transcript_proof ended in a parse error
C8_Witness ==
    /\ Done
    /\ input.kind = "json"
    /\ IsSome(input.session_header) /\ IsSome(input.signature)
    /\ ~IsSome(input.transcript_proof)
    /\ Unwrap(input.signature) = SignHeader(Unwrap(input.session_header))
    /\ Raised

\* C9: for every verified presentation the decoder reads no redacted
\* position as a literal byte: the data of the output does not depend on
\* what the transcript holds at the positions outside the disclosed ranges.
OtherFills == {0, 88}

C9_RedactedBytesNeverDecoded ==
    (Returned /\ Out.valid.b) =>
        \A fill \in OtherFills :
            Out.data = parse_http_response(
                           Reconstruct(InProof.received, InProof.ranges, fill))

\* C10: the decoder is total and follows the fallback chain: (1) bytes that
\* are not UTF-8 give {"raw": hex of the bytes}; (2) text with a separator
\* gives, for the body after the first separator, the body's JSON value if
\* it is JSON and {"text": body} if not; (3) text without a separator gives
\* {"text": whole text}.
Transcript == Unwrap(verified).val.recv_transcript

SeparatorAt(off) == MatchAt(Transcript, Separator, off)

SeparatorOffsets == {off \in 0..Len(Transcript) : SeparatorAt(off)}

BodyAfter(off) ==
    [i \in 1..(Len(Transcript) - off - 4) |-> Transcript[off + 4 + i]]

C10_DecoderFallbackChain ==
    (Returned /\ Out.valid.b) =>
        /\ Out.data.t \in {"obj", "num", "arr"}
        /\ ~Utf8From(Transcript, 1) =>
              Out.data = JsonObj("raw", JsonStr(HexEncode(Transcript)))
        /\ (Utf8From(Transcript, 1) /\ SeparatorOffsets = {}) =>
              Out.data = JsonObj("text", JsonStr(Transcript))
        /\ \A off \in SeparatorOffsets :
              (/\ Utf8From(Transcript, 1)
               /\ \A o \in SeparatorOffsets : off <= o) =>
                  IF json_from_str(BodyAfter(off)).ok
                  THEN Out.data = json_from_str(BodyAfter(off)).val
                  ELSE Out.data = JsonObj("text", JsonStr(BodyAfter(off)))

\* a text with two separators was split at the first: the body starts with
\* the second separator and is not JSON
C10_Witness ==
    /\ Returned
    /\ Cardinality(SeparatorOffsets) >= 2
    /\ Utf8From(Transcript, 1)
    /\ Out.data.t = "obj" /\ Out.data.k = "text"
    /\ MatchAt(Out.data.val.s, Separator, 0)

====
